---- MODULE Spec2Model ----
(***************************************************************************)
(* Model of the nats-requeue connection supervisor (requeue.go): Connect,  *)
(* the three y.Closer groups, Close under sync.Once, the ingress worker    *)
(* pool and the per-message commit callback.                               *)
(*                                                                         *)
(* Library behaviour the model relies on:                                  *)
(*  - y.Closer: Signal closes a channel, AddRunning/Done/Wait are a        *)
(*    sync.WaitGroup; Wait returns as soon as the count is zero.           *)
(*  - nats.Conn.Drain returns at once (the drain runs in a goroutine of    *)
(*    the client); nats.Conn.Close closes the connection without waiting   *)
(*    for a running subscription callback; the ClosedCB option fires once  *)
(*    when the connection reaches its closed state.                        *)
(*  - one delivery goroutine per subscription: callbacks run one at a time.*)
(* The batched writer (newBatchedWriter, Set, Close) lives outside         *)
(* requeue.go; it is modelled from its specified contract, in which        *)
(* a commit against a store that is not open (closed, or never opened)     *)
(* fails and fires the callbacks of the batch with the error.              *)
(*                                                                         *)
(* Four packages are also exercised on their own, each by a specification  *)
(* of its own in which the supervisor stays in its initial state:          *)
(*  - KeySpec: internal/queue/key.go (build a message key, parse it,       *)
(*    PrefixOf);                                                           *)
(*  - FbSpec: the envelope codec (build, view, MutateRetries);             *)
(*  - LockSpec: internal/badger/dir_unix.go, several processes locking one *)
(*    directory;                                                           *)
(*  - WbSpec, WbLiveSpec: one batched writer from creation to Close.       *)
(* The handlers of the bus client's disconnect, reconnect and error events *)
(* run with the supervisor in EventSpec. The client calls the error        *)
(* handler with a nil subscription for errors of the connection itself     *)
(* (permissions violation, drain timeout).                                 *)
(***************************************************************************)
EXTENDS Integers, Sequences, FiniteSets, Bags, TLC

\* requeue.go: DefaultNumConcurrentBatchTransactions
DefaultNumConcurrentBatchTransactions == 4

\* Number of messages the bus delivers in a run.
MaxMsgs == 2

\* Entry-count threshold of one batched-writer transaction.
BatchLimit == 2

Msgs == 1..MaxMsgs

CloserNames == {"nats", "natsConsumers", "badger"}
CloseCallers == {"connect", "embedder", "signal", "context", "handler"}

VARIABLES
    connectPc,      \* position of Options.Connect
    badgerDB,       \* Conn.badgerDB: "nil" | "open" | "closed"
    nc,             \* Conn.nc: "nil" | "connected" | "draining" | "closed"
    sub,            \* Conn.sub registered with the bus client
    mu,             \* Conn.mu: "free" or the name of the write holder
    closers,        \* Conn.closers: per closer, Signal count and running count
    closeOnce,      \* Conn.closeOnce: "idle" | "running" | "done"
    closePc,        \* position of the body run under closeOnce
    closedCount,    \* number of close(c.closed) executed
    callerPc,       \* per Close caller: "idle" | "calling" | "returned"
    natsCloserPc,   \* goroutine of initNATS: "none" | "wait" | "drained" | "done"
    badgerCloserPc, \* goroutine of initBadger: "none" | "wait" | "done"
    watchers,       \* context and signal watcher goroutines installed
    pool,           \* bag of worker goroutines (they carry no identity), each
                    \* [pc: "spawned" | "select" | "done", txn: the messages in
                    \* the open transaction of its batched writer]
    inflight,       \* message whose subscription callback is sending on natsMsgCh (0: none)
    nextMsg,        \* next message the bus will deliver
    received,       \* per message: number of times a worker received it from natsMsgCh
    setResult,      \* per message: result of wb.Set: "none" | "ok" | "oversized"
    cbResult,       \* per message: commit callback argument: "none" | "nil" | "err"
    stored,         \* messages whose write is committed in the store
    ack,            \* per message: msg.Respond(nil): "none" | "sent" | "failed"
    hookCalls,      \* per message: number of BadgerWriteMsgErr invocations
    hookSet,        \* Options.BadgerWriteMsgErr != nil
    busLog,         \* what the last bus event handler that ran did: "none" |
                    \* "disconnected" | "reconnected" | "error" |
                    \* "pending" | "noPending" | "panic"
    \* internal/queue/key.go, exercised on its own
    keyPc,          \* "idle" | "input" | "built" | "parsed" | "prefixed"
                    \* (the calls are made one after the other)
    queue,          \* queue name given to NewQueueKeyForMessage (bytes)
    ident,          \* identifier (key.Key) given to NewQueueKeyForMessage
    qkBytes,        \* result of QueueKey.Bytes
    parsed,         \* result of ParseQueueKey
    seek,           \* first argument given to PrefixOf
    until,          \* second argument given to PrefixOf
    prefix,         \* result of PrefixOf
    \* the envelope codec (flatbuf.RequeueMessage), exercised on its own
    fbPc,           \* "idle" | "input" | "built" | "mutated"
    fbFields,       \* the field values the envelope is built from
    fbN,            \* the argument of MutateRetries
    msgBytes,       \* the envelope buffer: vtable and memory cells
    fbSeen,         \* the fields a view read before the mutation
    mutOk,          \* result of MutateRetries
    \* internal/badger/dir_unix.go: processes locking one directory
    lockPc,         \* per process: "idle" | "flocked" | "held" | "removed" |
                    \* "released" | "failed"
    readOnly,       \* per process: the readOnly argument of its acquisition
    flock,          \* per process: the flock it holds: "none" | "sh" | "ex"
    pidFile,        \* 0 when the pid file is absent, else the process that wrote it
    releaseErr,     \* per process: Release returned an error
    \* one batched writer (wb of initNatsConsumer), exercised on its own
    wbPc,           \* "idle" | "open" | "closed"
    wbNext,         \* number of the next write given to Set
    wbAccepted,     \* the writes Set accepted, in submission order
    wbRejected,     \* the writes Set refused (ErrOversized, ErrClosed)
    wbTxn,          \* the writes in the current transaction
    wbTimer,        \* the one-shot flush timer is armed
    wbFired,        \* the callbacks invoked, in order: [id, ok, commit, by]
    wbStore,        \* the writes visible in the store
    wbCommits       \* number of commits attempted

vars == << connectPc, badgerDB, nc, sub, mu, closers, closeOnce, closePc,
           closedCount, callerPc, natsCloserPc, badgerCloserPc, watchers,
           pool, inflight, nextMsg, received, setResult, cbResult,
           stored, ack, hookCalls, hookSet, busLog,
           keyPc, queue, ident, qkBytes, parsed, seek, until, prefix,
           fbPc, fbFields, fbN, msgBytes, fbSeen, mutOk,
           lockPc, readOnly, flock, pidFile, releaseErr,
           wbPc, wbNext, wbAccepted, wbRejected, wbTxn, wbTimer, wbFired,
           wbStore, wbCommits >>

\* The connection supervisor's state.
connState == << connectPc, badgerDB, nc, sub, mu, closers, closeOnce, closePc,
                closedCount, callerPc, natsCloserPc, badgerCloserPc, watchers,
                pool, inflight, nextMsg, received, setResult, cbResult,
                stored, ack, hookCalls, hookSet, busLog >>

keyVars == << keyPc, queue, ident, qkBytes, parsed, seek, until, prefix >>

\* State of the packages exercised on their own.
fbVars == << fbPc, fbFields, fbN, msgBytes, fbSeen, mutOk >>
lockVars == << lockPc, readOnly, flock, pidFile, releaseErr >>
wbVars == << wbPc, wbNext, wbAccepted, wbRejected, wbTxn, wbTimer, wbFired,
            wbStore, wbCommits >>
\* The log of the bus event handlers, and all the state that the steps of
\* the supervisor leave alone.
eventVars == << busLog >>
sideVars == << keyVars, fbVars, lockVars, wbVars, eventVars >>

connVars == << connectPc, badgerDB, nc, sub, mu, watchers >>
closeVars == << closers, closeOnce, closePc, closedCount, callerPc,
                natsCloserPc, badgerCloserPc >>
workerVars == << pool >>
busVars == << inflight, nextMsg >>
msgVars == << received, setResult, cbResult, stored, ack, hookCalls >>

Range(s) == { s[i] : i \in 1..Len(s) }

----
\* y.Closer

NewCloser == [signals |-> 0, running |-> 0]

AddRunning(cl, name, n) == [cl EXCEPT ![name].running = @ + n]

Done(cl, name) == [cl EXCEPT ![name].running = @ - 1]

Signal(cl, name) == [cl EXCEPT ![name].signals = @ + 1]

HasBeenClosed(name) == closers[name].signals > 0

\* Wait of SignalAndWait: the WaitGroup count is zero.
Waited(name) == closers[name].running = 0

----
\* NewConn

ConnInit ==
    /\ connectPc = "initBadger"
    /\ badgerDB = "nil"
    /\ nc = "nil"
    /\ sub = FALSE
    /\ mu = "free"
    /\ closers = [n \in CloserNames |-> NewCloser]
    /\ closeOnce = "idle"
    /\ closePc = "idle"
    /\ closedCount = 0
    /\ callerPc = [c \in CloseCallers |-> "idle"]
    /\ natsCloserPc = "none"
    /\ badgerCloserPc = "none"
    /\ watchers = FALSE
    /\ pool = EmptyBag
    /\ inflight = 0
    /\ nextMsg = 1
    /\ received = [m \in Msgs |-> 0]
    /\ setResult = [m \in Msgs |-> "none"]
    /\ cbResult = [m \in Msgs |-> "none"]
    /\ stored = {}
    /\ ack = [m \in Msgs |-> "none"]
    /\ hookCalls = [m \in Msgs |-> 0]
    /\ hookSet \in BOOLEAN
    /\ busLog = "none"

----
\* Conn.Close: the body runs under closeOnce; every other caller blocks in
\* Once.Do until the body has returned.

\* Close without closeOnce: every caller runs the body.
OnceFree_Always == TRUE

\* closeOnce.Do runs the body for the first caller only.
OnceFree == closeOnce = "idle"

\* Who may call Close, and when.
CanCall(c) ==
    CASE c = "connect"  -> connectPc = "rollback"
      [] c = "embedder" -> connectPc = "ok"
      [] c = "signal"   -> watchers
      [] c = "context"  -> watchers
      [] c = "handler"  -> nc = "closed"

\* A goroutine calls Close. The first caller starts the body:
\* c.closers.nats.SignalAndWait() signals the nats closer and waits.
CloseCall(c) ==
    /\ callerPc[c] = "idle"
    /\ CanCall(c)
    /\ callerPc' = [callerPc EXCEPT ![c] = "calling"]
    /\ IF OnceFree
         THEN /\ closeOnce' = "running"
              /\ closers' = Signal(closers, "nats")
              /\ closePc' = "natsWait"
         ELSE UNCHANGED << closeOnce, closers, closePc >>
    /\ UNCHANGED << closedCount, natsCloserPc, badgerCloserPc >>
    /\ UNCHANGED << connVars, workerVars, busVars, msgVars, hookSet >>
    /\ UNCHANGED sideVars

\* The wait of the bus phase is over.
NatsPhaseFinished == Waited("nats")

\* c.closers.natsConsumers.SignalAndWait()
CloseStopConsumers ==
    /\ closePc = "natsWait"
    /\ NatsPhaseFinished
    /\ closers' = Signal(closers, "natsConsumers")
    /\ closePc' = "consumersWait"
    /\ UNCHANGED << closeOnce, closedCount, callerPc, natsCloserPc, badgerCloserPc >>
    /\ UNCHANGED << connVars, workerVars, busVars, msgVars, hookSet >>
    /\ UNCHANGED sideVars

\* The wait of the worker phase is over.
ConsumersPhaseFinished == Waited("natsConsumers")

\* c.closers.badger.SignalAndWait()
CloseStopBadger ==
    /\ closePc = "consumersWait"
    /\ ConsumersPhaseFinished
    /\ closers' = Signal(closers, "badger")
    /\ closePc' = "badgerWait"
    /\ UNCHANGED << closeOnce, closedCount, callerPc, natsCloserPc, badgerCloserPc >>
    /\ UNCHANGED << connVars, workerVars, busVars, msgVars, hookSet >>
    /\ UNCHANGED sideVars

\* The wait of the storage phase is over.
BadgerPhaseFinished == Waited("badger")

\* close(c.closed); the Once body returns.
CloseFinish ==
    /\ closePc = "badgerWait"
    /\ BadgerPhaseFinished
    /\ closedCount' = closedCount + 1
    /\ closePc' = "done"
    /\ closeOnce' = "done"
    /\ UNCHANGED << closers, callerPc, natsCloserPc, badgerCloserPc >>
    /\ UNCHANGED << connVars, workerVars, busVars, msgVars, hookSet >>
    /\ UNCHANGED sideVars

\* Close returns to a caller once the Once body has completed.
CloseReturn(c) ==
    /\ callerPc[c] = "calling"
    /\ closeOnce = "done"
    /\ callerPc' = [callerPc EXCEPT ![c] = "returned"]
    /\ UNCHANGED << closers, closeOnce, closePc, closedCount, natsCloserPc,
                    badgerCloserPc >>
    /\ UNCHANGED << connVars, workerVars, busVars, msgVars, hookSet >>
    /\ UNCHANGED sideVars

\* HasBeenClosed(): the completion channel is closed.
ConnHasBeenClosed == closedCount > 0

----
\* Options.Connect

\* initBadger: the error of badger.Open is logged and nil is returned.
InitBadgerErr(openOk) == FALSE

\* rc.initBadger(): open the store, register and start the closer goroutine.
InitBadger ==
    /\ connectPc = "initBadger"
    /\ mu = "free"
    /\ \E openOk \in BOOLEAN :
         /\ badgerDB' = IF openOk THEN "open" ELSE "nil"
         /\ connectPc' = IF InitBadgerErr(openOk) THEN "rollback" ELSE "initNATS"
    /\ closers' = AddRunning(closers, "badger", 1)
    /\ badgerCloserPc' = "wait"
    /\ UNCHANGED << nc, sub, mu, watchers >>
    /\ UNCHANGED << closeOnce, closePc, closedCount, callerPc, natsCloserPc >>
    /\ UNCHANGED << workerVars, busVars, msgVars, hookSet >>
    /\ UNCHANGED sideVars

\* rc.initNATS(): c.mu.Lock(); the handlers are added to the options;
\* rc.nc, err = nats.Connect(...). On an error initNATS returns (c.mu is
\* unlocked); otherwise the connection is up, its handlers are live, and
\* initNATS goes on holding c.mu.
InitNATSConnect ==
    /\ connectPc = "initNATS"
    /\ mu = "free"
    /\ \E connOk \in BOOLEAN :
         IF connOk
           THEN /\ nc' = "connected"
                /\ mu' = "initNATS"
                /\ connectPc' = "natsCloser"
           ELSE /\ connectPc' = "rollback"
                /\ UNCHANGED << nc, mu >>
    /\ UNCHANGED << badgerDB, sub, watchers >>
    /\ UNCHANGED closeVars
    /\ UNCHANGED << workerVars, busVars, msgVars, hookSet >>
    /\ UNCHANGED sideVars

\* rc.initNATS(): rc.closers.nats.AddRunning(1); go func() { ... }() starts
\* the goroutine that waits for the nats closer.
InitNATSCloser ==
    /\ connectPc = "natsCloser"
    /\ mu = "initNATS"
    /\ closers' = AddRunning(closers, "nats", 1)
    /\ natsCloserPc' = "wait"
    /\ connectPc' = "subscribe"
    /\ UNCHANGED << badgerDB, nc, sub, mu, watchers >>
    /\ UNCHANGED << closeOnce, closePc, closedCount, callerPc, badgerCloserPc >>
    /\ UNCHANGED << workerVars, busVars, msgVars, hookSet >>
    /\ UNCHANGED sideVars

\* Results of QueueSubscribe: the subscription is registered, or an error.
\* QueueSubscribe on a closed connection fails.
SubscribeResults ==
    IF nc = "closed" THEN {"subErr"} ELSE {"ok", "subErr"}

\* rc.initNATS(): QueueSubscribe registers the callback; on success
\* rc.sub = sub and initNATS goes on to rc.nc.Flush(), still holding c.mu;
\* on an error it returns (c.mu is unlocked).
InitNATSSubscribe ==
    /\ connectPc = "subscribe"
    /\ mu = "initNATS"
    /\ \E r \in SubscribeResults :
         /\ sub' = (r = "ok")
         /\ connectPc' = IF r = "ok" THEN "flush" ELSE "rollback"
         /\ mu' = IF r = "ok" THEN "initNATS" ELSE "free"
    /\ UNCHANGED << badgerDB, nc, watchers >>
    /\ UNCHANGED << closeVars, workerVars, busVars, msgVars, hookSet >>
    /\ UNCHANGED sideVars

\* Results of LastError after Flush: nil, or an error of the connection.
FlushResults == {"ok", "lastErr"}

\* rc.initNATS() from the return of rc.nc.Flush() (a round trip to the
\* server, or an error that is ignored) to its own return: LastError is
\* checked and c.mu is unlocked. While Flush waits the subscription is
\* live: its callback and the handlers of the client can run.
InitNATSFlush ==
    /\ connectPc = "flush"
    /\ mu = "initNATS"
    /\ \E r \in FlushResults :
         connectPc' = IF r = "ok" THEN "consumers" ELSE "rollback"
    /\ mu' = "free"
    /\ UNCHANGED << badgerDB, nc, sub, watchers >>
    /\ UNCHANGED << closeVars, workerVars, busVars, msgVars, hookSet >>
    /\ UNCHANGED sideVars

\* n fresh worker goroutines.
Spawn(n) == [r \in {[pc |-> "spawned", txn |-> << >>]} |-> n]

\* rc.initNatsConsumers(): AddRunning(4) and one goroutine per worker.
InitNatsConsumers ==
    /\ connectPc = "consumers"
    /\ mu = "free"
    /\ closers' = AddRunning(closers, "natsConsumers",
                             DefaultNumConcurrentBatchTransactions)
    /\ pool' = pool (+) Spawn(DefaultNumConcurrentBatchTransactions)
    /\ connectPc' = "watchers"
    /\ UNCHANGED << badgerDB, nc, sub, mu, watchers >>
    /\ UNCHANGED << closeOnce, closePc, closedCount, callerPc, natsCloserPc,
                    badgerCloserPc >>
    /\ UNCHANGED << busVars, msgVars, hookSet >>
    /\ UNCHANGED sideVars

\* The context watcher and the signal watcher are started; Connect returns rc.
InstallWatchers ==
    /\ connectPc = "watchers"
    /\ watchers' = TRUE
    /\ connectPc' = "ok"
    /\ UNCHANGED << badgerDB, nc, sub, mu >>
    /\ UNCHANGED << closeVars, workerVars, busVars, msgVars, hookSet >>
    /\ UNCHANGED sideVars

\* The error paths of Connect call rc.Close() before they return.
RolledBack == callerPc["connect"] = "returned"

\* The error path of Connect: rc.Close() has returned, Connect returns err.
ConnectReturnErr ==
    /\ connectPc = "rollback"
    /\ RolledBack
    /\ connectPc' = "err"
    /\ UNCHANGED << badgerDB, nc, sub, mu, watchers >>
    /\ UNCHANGED << closeVars, workerVars, busVars, msgVars, hookSet >>
    /\ UNCHANGED sideVars

----
\* The closer goroutines started by initNATS and initBadger

\* nc.Drain(): puts an open connection into its draining state and returns;
\* on a closed connection it returns an error, which is logged.
Drain(conn) == IF conn = "connected" THEN "draining" ELSE conn

\* <-c.closers.nats.HasBeenClosed(); c.mu.Lock(); c.nc.Drain()
NatsCloserDrain ==
    /\ natsCloserPc = "wait"
    /\ HasBeenClosed("nats")
    /\ mu = "free"
    /\ mu' = "natsCloser"
    /\ nc' = Drain(nc)
    /\ natsCloserPc' = "drained"
    /\ UNCHANGED << connectPc, badgerDB, sub, watchers >>
    /\ UNCHANGED << closers, closeOnce, closePc, closedCount, callerPc,
                    badgerCloserPc >>
    /\ UNCHANGED << workerVars, busVars, msgVars, hookSet >>
    /\ UNCHANGED sideVars

\* c.nc.Close(); c.mu.Unlock(); rc.closers.nats.Done()
NatsCloserClose ==
    /\ natsCloserPc = "drained"
    /\ nc' = "closed"
    /\ mu' = "free"
    /\ closers' = Done(closers, "nats")
    /\ natsCloserPc' = "done"
    /\ UNCHANGED << connectPc, badgerDB, sub, watchers >>
    /\ UNCHANGED << closeOnce, closePc, closedCount, callerPc, badgerCloserPc >>
    /\ UNCHANGED << workerVars, busVars, msgVars, hookSet >>
    /\ UNCHANGED sideVars

\* The goroutine waiting for the completion channel of Close instead.
BadgerCloserReady_WaitsForClosed == HasBeenClosed("badger") /\ ConnHasBeenClosed

\* <-c.closers.badger.HasBeenClosed(); <-c.closers.nats.HasBeenClosed()
BadgerCloserReady == HasBeenClosed("badger") /\ HasBeenClosed("nats")

\* The goroutine of initBadger, once released: c.mu.Lock();
\* c.badgerDB.Close() unless the handle is nil; c.closers.badger.Done()
BadgerCloserRun ==
    /\ badgerCloserPc = "wait"
    /\ BadgerCloserReady
    /\ mu = "free"
    /\ badgerDB' = IF badgerDB = "nil" THEN "nil" ELSE "closed"
    /\ closers' = Done(closers, "badger")
    /\ badgerCloserPc' = "done"
    /\ UNCHANGED << connectPc, nc, sub, mu, watchers >>
    /\ UNCHANGED << closeOnce, closePc, closedCount, callerPc, natsCloserPc >>
    /\ UNCHANGED << workerVars, busVars, msgVars, hookSet >>
    /\ UNCHANGED sideVars

----
\* The bus

\* The connection is closed for good by the bus side (no server left to
\* reconnect to, authorization revoked); the client will call ClosedCB.
NatsTerminalClose ==
    /\ nc = "connected"
    /\ nc' = "closed"
    /\ UNCHANGED << connectPc, badgerDB, sub, mu, watchers >>
    /\ UNCHANGED << closeVars, workerVars, busVars, msgVars, hookSet >>
    /\ UNCHANGED sideVars

\* The subscription's delivery goroutine calls the callback of QueueSubscribe
\* with the next message: the callback blocks in  c.natsMsgCh <- msg.
Deliver ==
    /\ sub
    /\ nc \in {"connected", "draining"}
    /\ inflight = 0
    /\ nextMsg <= MaxMsgs
    /\ inflight' = nextMsg
    /\ nextMsg' = nextMsg + 1
    /\ UNCHANGED << connVars, closeVars, workerVars, msgVars, hookSet >>
    /\ UNCHANGED sideVars

----
\* The handlers of the bus client's asynchronous events, installed by
\* initNATS. The client runs them on its callback goroutine once the
\* connection exists, whatever the supervisor is doing.

HandlersInstalled == nc \in {"connected", "draining", "closed"}

\* An unrecovered panic ends the process: every goroutine is gone, the
\* connection and the subscription with them; nothing is closed in order.
PanicExit ==
    /\ busLog' = "panic"
    /\ connectPc' = "aborted"
    /\ nc' = "aborted"
    /\ sub' = FALSE
    /\ watchers' = FALSE
    /\ closePc' = "aborted"
    /\ callerPc' = [c \in CloseCallers |-> "aborted"]
    /\ natsCloserPc' = "aborted"
    /\ badgerCloserPc' = "aborted"
    /\ pool' = EmptyBag
    /\ inflight' = 0
    /\ UNCHANGED << badgerDB, mu, closers, closeOnce, closedCount, nextMsg >>
    /\ UNCHANGED << msgVars, hookSet >>

\* NATSDisconnectErrHandler(nc, err): logs.
NATSDisconnectErrHandler ==
    /\ HandlersInstalled
    /\ busLog' = "disconnected"
    /\ UNCHANGED << connVars, closeVars, workerVars, busVars, msgVars, hookSet >>
    /\ UNCHANGED << keyVars, fbVars, lockVars, wbVars >>

\* NATSReconnectHandler(nc): logs.
NATSReconnectHandler ==
    /\ HandlersInstalled
    /\ busLog' = "reconnected"
    /\ UNCHANGED << connVars, closeVars, workerVars, busVars, msgVars, hookSet >>
    /\ UNCHANGED << keyVars, fbVars, lockVars, wbVars >>

\* The asynchronous errors the bus client reports: a slow consumer comes with
\* its subscription; a permissions violation and a drain timeout come with a
\* nil subscription.
AsyncErrors ==
    {[hasSub |-> TRUE, err |-> "ErrSlowConsumer"],
     [hasSub |-> FALSE, err |-> "permissions violation"],
     [hasSub |-> FALSE, err |-> "ErrDrainTimeout"]}

\* sub.Pending() fails on a subscription that is closed or whose connection
\* is closed.
PendingFails == ~sub \/ nc = "closed"

\* NATSErrorHandler(con, sub, natsErr): the first log statement reads
\* sub.Subject, a nil dereference when sub is nil; for ErrSlowConsumer it
\* then calls sub.Pending() and logs the pending count or the error.
NATSErrorHandler(e) ==
    /\ HandlersInstalled
    /\ e.hasSub => sub
    /\ IF ~e.hasSub
         THEN PanicExit
         ELSE /\ busLog' = IF e.err = "ErrSlowConsumer"
                              THEN (IF PendingFails THEN "noPending" ELSE "pending")
                              ELSE "error"
              /\ UNCHANGED << connVars, closeVars, workerVars, busVars,
                              msgVars, hookSet >>
    /\ UNCHANGED << keyVars, fbVars, lockVars, wbVars >>

----
\* processIngressMessageCallback(msg): the callback given to wb.Set

\* The callback calls msg.Respond(nil) whatever err is.
CallbackResponds(err) == TRUE

\* The callback only logs err; it does not call Opts.BadgerWriteMsgErr.
CallbackCallsHook(err) == FALSE

\* msg.Respond(nil): the empty reply is published unless the connection is closed.
RespondResult == IF nc \in {"connected", "draining"} THEN "sent" ELSE "failed"

----
\* Batched writer (from its contract): one open transaction per writer; a
\* commit makes the whole batch visible or nothing, then fires the callbacks
\* of the batch in submission order with the commit result.

\* A commit on a store that is not open fails.
CommitOutcomes == IF badgerDB = "open" THEN BOOLEAN ELSE {FALSE}

\* Results of wb.Set for one message.
SetResults == {"ok", "oversized"}

Commit(b, ok) ==
    /\ stored' = IF ok THEN stored \cup Range(b) ELSE stored
    /\ cbResult' = [m \in Msgs |->
                      IF m \in Range(b) THEN (IF ok THEN "nil" ELSE "err")
                                        ELSE cbResult[m]]
    /\ ack' = [m \in Msgs |->
                 IF m \in Range(b) /\ CallbackResponds(~ok) THEN RespondResult
                                                             ELSE ack[m]]
    /\ hookCalls' = [m \in Msgs |->
                       IF m \in Range(b) /\ CallbackCallsHook(~ok) /\ hookSet
                         THEN hookCalls[m] + 1 ELSE hookCalls[m]]

\* The workers of the pool, and the pool after one worker moves from r to r2.
Workers == BagToSet(pool)

\* A pool whose workers share one batched writer: a write by one worker
\* shows in the transaction of every worker that was in the same state.
Move_SharedWriter(r, r2) ==
    [x \in (DOMAIN pool \ {r}) \cup {r2} |->
        IF x = r2 THEN CopiesIn(r, pool) + CopiesIn(r2, pool) ELSE pool[x]]

Move(r, r2) == (pool (-) SetToBag({r})) (+) SetToBag({r2})

\* The flush timer armed by the first write of the transaction fires.
TimerCommit(r) ==
    /\ r.pc = "select"
    /\ r.txn # << >>
    /\ Len(r.txn) < BatchLimit
    /\ \E ok \in CommitOutcomes : Commit(r.txn, ok)
    /\ pool' = Move(r, [r EXCEPT !.txn = << >>])
    /\ UNCHANGED << received, setResult >>
    /\ UNCHANGED << connVars, closeVars, busVars, hookSet >>
    /\ UNCHANGED sideVars

\* The transaction has reached its entry limit and is committed.
ThresholdCommit(r) ==
    /\ r.pc = "select"
    /\ Len(r.txn) >= BatchLimit
    /\ \E ok \in CommitOutcomes : Commit(r.txn, ok)
    /\ pool' = Move(r, [r EXCEPT !.txn = << >>])
    /\ UNCHANGED << received, setResult >>
    /\ UNCHANGED << connVars, closeVars, busVars, hookSet >>
    /\ UNCHANGED sideVars

----
\* Ingress workers

\* go c.initNatsConsumer(): c.mu.RLock(); newBatchedWriter(c.badgerDB, ...);
\* c.mu.RUnlock(). The writer is built on whatever handle c.badgerDB holds.
WorkerStart(r) ==
    /\ r.pc = "spawned"
    /\ mu = "free"
    /\ pool' = Move(r, [r EXCEPT !.pc = "select"])
    /\ UNCHANGED << connVars, closeVars, busVars, msgVars, hookSet >>
    /\ UNCHANGED sideVars

\* processIngressMessage only logging the error of wb.Set.
SetErrCallsHook_Never == FALSE

\* processIngressMessage calls Opts.BadgerWriteMsgErr(msg, err) when wb.Set
\* returns an error and the hook is configured.
SetErrCallsHook == hookSet

\* case msg := <-c.natsMsgCh: c.processIngressMessage(wb, msg)
WorkerRecv(r) ==
    /\ r.pc = "select"
    /\ inflight # 0
    /\ Len(r.txn) < BatchLimit
    /\ \E res \in SetResults :
         /\ received' = [received EXCEPT ![inflight] = @ + 1]
         /\ setResult' = [setResult EXCEPT ![inflight] = res]
         /\ IF res = "ok"
              THEN /\ pool' = Move(r, [r EXCEPT !.txn = Append(@, inflight)])
                   /\ UNCHANGED hookCalls
              ELSE /\ hookCalls' = [hookCalls EXCEPT ![inflight] =
                                      IF SetErrCallsHook THEN @ + 1 ELSE @]
                   /\ UNCHANGED pool
    /\ inflight' = 0
    /\ UNCHANGED << nextMsg, cbResult, stored, ack >>
    /\ UNCHANGED << connVars, closeVars, hookSet >>
    /\ UNCHANGED sideVars

\* case <-natsConsumer.HasBeenClosed(): return; the deferred wb.Close()
\* flushes the open transaction, then the deferred natsConsumer.Done() runs.
WorkerStop(r) ==
    /\ r.pc = "select"
    /\ HasBeenClosed("natsConsumers")
    /\ \E ok \in CommitOutcomes : Commit(r.txn, ok)
    /\ pool' = Move(r, [pc |-> "done", txn |-> << >>])
    /\ closers' = Done(closers, "natsConsumers")
    /\ UNCHANGED << closeOnce, closePc, closedCount, callerPc, natsCloserPc,
                    badgerCloserPc >>
    /\ UNCHANGED << received, setResult >>
    /\ UNCHANGED << connVars, busVars, hookSet >>
    /\ UNCHANGED sideVars

----
----
\* internal/queue/key.go. Keys are byte sequences over 0..255.

\* sep = "."
sep == 46

\* QueuesNamespace = "_q", MessagesBucket = "_m", StateBucket = "_s"
QueuesNamespace == << 95, 113 >>
MessagesBucket == << 95, 109 >>
StateBucket == << 95, 115 >>

\* The queue name "default".
DefaultQueue == << 100, 101, 102, 97, 117, 108, 116 >>

\* internal/key: the identifier is a fixed-width byte value; Min is all zero
\* bytes and Max is all one bits.
KeySize == 20
KeyMin == [i \in 1..KeySize |-> 0]
KeyMax == [i \in 1..KeySize |-> 255]

\* A key.Key value: nil, or a byte slice.
NilKey == [nil |-> TRUE, bytes |-> << >>]
KeyOf(b) == [nil |-> FALSE, bytes |-> b]

NewQueueKeyForMessage(q, k) ==
    [Namespace |-> QueuesNamespace, Bucket |-> MessagesBucket, Name |-> q,
     Property |-> << >>, Key |-> k]

NewQueueKeyForState(q, property) ==
    [Namespace |-> QueuesNamespace, Bucket |-> StateBucket, Name |-> q,
     Property |-> property, Key |-> NilKey]

IsKey(qk) == ~qk.Key.nil

\* QueueKey.Bytes: namespace, bucket, name and the identifier (or the
\* property), joined by the separator.
Bytes(qk) ==
    LET p == IF IsKey(qk) THEN qk.Key.bytes ELSE qk.Property
    IN  qk.Namespace \o << sep >> \o qk.Bucket \o << sep >> \o qk.Name
            \o << sep >> \o p

\* Index of the first separator byte of s, 0 when there is none.
IndexByte(s, c) ==
    IF \E i \in 1..Len(s) : s[i] = c
        THEN CHOOSE i \in 1..Len(s) : s[i] = c /\ \A j \in 1..(i - 1) : s[j] # c
        ELSE 0

\* bytes.Split(s, sep): every piece between separators, empty pieces kept.
RECURSIVE Split(_, _)
Split(s, c) ==
    LET i == IndexByte(s, c)
    IN  IF i = 0 THEN << s >>
        ELSE << SubSeq(s, 1, i - 1) >> \o Split(SubSeq(s, i + 1, Len(s)), c)

\* The two debug.Assert of ParseQueueKey; a failed assertion fails the parse.
ParseAsserts(spl) == Len(spl) = 4 /\ Len(spl[4]) = KeySize

ParseQueueKey(k) ==
    LET spl == Split(k, sep)
    IN  IF ParseAsserts(spl)
            THEN [ok |-> TRUE,
                  key |-> [Namespace |-> spl[1], Bucket |-> spl[2],
                           Name |-> spl[3], Property |-> << >>,
                           Key |-> KeyOf(spl[4])]]
            ELSE [ok |-> FALSE, key |-> NewQueueKeyForState(<< >>, << >>)]

\* PrefixOf: the loop over i = 0 .. length-1 that appends seek[i] to prefix
\* and breaks at the first index where seek and until differ.
RECURSIVE PrefixLoop(_, _, _, _, _)
PrefixLoop(seek_, until_, i, length, prefix_) ==
    IF i > length THEN prefix_
    ELSE IF seek_[i] # until_[i] THEN prefix_
    ELSE PrefixLoop(seek_, until_, i + 1, length, Append(prefix_, seek_[i]))

\* A PrefixOf that copies the first length bytes of seek without comparing.
PrefixOf_NoCompare(seek_, until_) ==
    LET length == IF Len(until_) < Len(seek_) THEN Len(until_) ELSE Len(seek_)
    IN  SubSeq(seek_, 1, length)

\* PrefixOf(seek, until): length is the smaller of the two lengths.
PrefixOf(seek_, until_) ==
    LET length == IF Len(until_) < Len(seek_) THEN Len(until_) ELSE Len(seek_)
    IN  PrefixLoop(seek_, until_, 1, length, << >>)

\* FirstMessage returns the smallest possible key given the queue, using key.Max.
FirstMessage_Max(q) == NewQueueKeyForMessage(q, KeyOf(KeyMax))

\* FirstMessage returns the smallest possible key given the queue.
FirstMessage(q) == NewQueueKeyForMessage(q, KeyOf(KeyMin))

\* LastMessage returns the largest possible key given the queue.
LastMessage(q) == NewQueueKeyForMessage(q, KeyOf(KeyMax))

\* bytes.Compare(a, b) < 0
RECURSIVE LexLess(_, _)
LexLess(a, b) ==
    IF b = << >> THEN FALSE
    ELSE IF a = << >> THEN TRUE
    ELSE IF a[1] # b[1] THEN a[1] < b[1]
    ELSE LexLess(Tail(a), Tail(b))

\* Inputs: queue names with and without the separator, and identifiers
\* filled with one byte value except at one position.
SampleBytes == {0, 46, 97, 255}
SamplePositions == {1, 10, KeySize}
Queues == {DefaultQueue, << 104, 105, 103, 104 >>, << 97 >>, << 97, 46, 98 >>}
Idents == { [i \in 1..KeySize |-> IF i = p THEN b ELSE c] :
                p \in SamplePositions, b \in SampleBytes, c \in SampleBytes }

KeyIdle ==
    /\ keyPc = "idle"
    /\ queue = << >>
    /\ ident = << >>
    /\ qkBytes = << >>
    /\ parsed = ParseQueueKey(<< >>)
    /\ seek = << >>
    /\ until = << >>
    /\ prefix = << >>

\* qk := NewQueueKeyForMessage(queue, ident).Bytes()
KeyBuild ==
    /\ keyPc = "input"
    /\ qkBytes' = Bytes(NewQueueKeyForMessage(queue, KeyOf(ident)))
    /\ keyPc' = "built"
    /\ UNCHANGED << queue, ident, parsed, seek, until, prefix >>
    /\ UNCHANGED << connState, fbVars, lockVars, wbVars >>

\* ParseQueueKey(qk)
KeyParse ==
    /\ keyPc = "built"
    /\ parsed' = ParseQueueKey(qkBytes)
    /\ keyPc' = "parsed"
    /\ UNCHANGED << queue, ident, qkBytes, seek, until, prefix >>
    /\ UNCHANGED << connState, fbVars, lockVars, wbVars >>

\* The arguments PrefixOf is called with: the bounds of a range scan over the
\* queue, the key of the message, and short sequences of the bytes every key
\* starts with (the empty one, equal ones, prefixes of the keys, ones that
\* differ from the keys at the first or at a later byte).
PrefixBytes == Range(QueuesNamespace)
MaxPrefixLen == 2
PrefixInputs ==
    {Bytes(FirstMessage(queue)), Bytes(LastMessage(queue)),
     Bytes(NewQueueKeyForMessage(queue, KeyOf(ident)))}
        \cup UNION { [1..n -> PrefixBytes] : n \in 0..MaxPrefixLen }

\* prefix := PrefixOf(seek, until)
KeyPrefixOf ==
    /\ keyPc = "parsed"
    /\ \E a \in PrefixInputs, b \in PrefixInputs :
          /\ seek' = a
          /\ until' = b
          /\ prefix' = PrefixOf(a, b)
    /\ keyPc' = "prefixed"
    /\ UNCHANGED << queue, ident, qkBytes, parsed >>
    /\ UNCHANGED << connState, fbVars, lockVars, wbVars >>

----
\* processIngressMessage: the key of the write.

\* OriginalSubject of the envelope of message m: "foo.bar" for message 2,
\* "foo" for the others.
OriginalSubject(m) ==
    IF m = 2 THEN << 102, 111, 111, 46, 98, 97, 114 >> ELSE << 102, 111, 111 >>

\* ksuid.New().String(): 27 base-62 characters; message m gets the digit m
\* repeated, so that the identifiers differ.
KsuidStringLen == 27
KsuidString(m) == [i \in 1..KsuidStringLen |-> 48 + (m % 10)]

\* key := []byte(fmt.Sprintf("%s.%s", OriginalSubject, ksuid.New().String()))
IngressKey(m) == OriginalSubject(m) \o << sep >> \o KsuidString(m)

\* The keys present in the store.
StoredKeys == { IngressKey(m) : m \in stored }

----
\* The envelope codec: table RequeueMessage of the schema, in the flatbuffers
\* encoding. A buffer is a vtable (per slot, the offset of the field's cell in
\* the table, 0 when the field was not written) and the memory cells; a
\* scalar occupies one fixed-width cell, a string or byte vector lives in a
\* cell of its own that the table refers to by offset.

ScalarFields == {"retries", "ttl", "delay", "backoff_strategy"}
VectorFields == {"queue_name", "original_subject", "original_payload"}
FieldOrder == << "retries", "ttl", "delay", "backoff_strategy",
                 "queue_name", "original_subject", "original_payload" >>

\* Two fields of the table given the same slot.
SlotOf_SharedSlot(f) ==
    IF f = "ttl" THEN 1
    ELSE CHOOSE i \in 1..Len(FieldOrder) : FieldOrder[i] = f

\* The slot of a field: its position in the table declaration.
SlotOf(f) == CHOOSE i \in 1..Len(FieldOrder) : FieldOrder[i] = f

\* The schema's defaults: every scalar defaults to 0 (Undefined = 0).
FieldDefault(f) == IF f \in ScalarFields THEN 0 ELSE << >>

\* Builder: the vectors are written first, then the table; a scalar equal to
\* its default is not written and gets no slot.
Written(fields, f) == f \in VectorFields \/ fields[f] # FieldDefault(f)

RECURSIVE AddSlots(_, _, _)
AddSlots(b, fields, i) ==
    IF i > Len(FieldOrder) THEN b
    ELSE LET f == FieldOrder[i]
             cell == IF f \in VectorFields
                         THEN CHOOSE j \in 1..3 :
                                 FieldOrder[4 + j] = f
                         ELSE fields[f]
         IN  IF Written(fields, f)
                 THEN AddSlots([vt |-> [b.vt EXCEPT ![SlotOf(f)] = Len(b.mem) + 1],
                                mem |-> Append(b.mem, cell)], fields, i + 1)
                 ELSE AddSlots(b, fields, i + 1)

\* msg.Bytes()
Build(fields) ==
    AddSlots([vt |-> [s \in 1..Len(FieldOrder) |-> 0],
              mem |-> << fields["queue_name"], fields["original_subject"],
                         fields["original_payload"] >>], fields, 1)

\* A view reads a field through the vtable; an absent field reads its default.
ReadField(b, f) ==
    LET off == b.vt[SlotOf(f)]
    IN  IF off = 0 THEN FieldDefault(f)
        ELSE IF f \in VectorFields THEN b.mem[b.mem[off]]
        ELSE b.mem[off]

\* flatbuf.GetRootAsRequeueMessage(b, 0) and its accessors.
View(b) == [f \in ScalarFields \cup VectorFields |-> ReadField(b, f)]

\* MutateRetries(n): overwrites the cell of retries in place; false when the
\* buffer has no slot for it.
MutateRetries(b, n) ==
    LET off == b.vt[SlotOf("retries")]
    IN  IF off = 0 THEN [ok |-> FALSE, buf |-> b]
        ELSE [ok |-> TRUE, buf |-> [b EXCEPT !.mem[off] = n]]

\* Inputs: the values of the test and the defaults.
FieldInputs ==
    [retries : {0, 5}, ttl : {0, 10000}, delay : {0, 20000},
     backoff_strategy : {0, 1}, queue_name : {<< >>},
     original_subject : {<< >>, << 102, 111, 111, 46, 98, 97, 114 >>},
     original_payload : {<< 109, 121 >>}]
RetriesInputs == {0, 4, 5}

EmptyBuffer == [vt |-> [s \in 1..Len(FieldOrder) |-> 0], mem |-> << >>]

FbIdle ==
    /\ fbPc = "idle"
    /\ fbFields = View(EmptyBuffer)
    /\ fbN = 0
    /\ msgBytes = EmptyBuffer
    /\ fbSeen = View(EmptyBuffer)
    /\ mutOk = FALSE

\* msgBytes := msg.Bytes()
FbBuild ==
    /\ fbPc = "input"
    /\ msgBytes' = Build(fbFields)
    /\ fbPc' = "built"
    /\ UNCHANGED << fbFields, fbN, fbSeen, mutOk, connState, keyVars, lockVars, wbVars >>

\* fb := GetRootAsRequeueMessage(msgBytes, 0); fb.MutateRetries(n)
FbMutate ==
    /\ fbPc = "built"
    /\ fbSeen' = View(msgBytes)
    /\ mutOk' = MutateRetries(msgBytes, fbN).ok
    /\ msgBytes' = MutateRetries(msgBytes, fbN).buf
    /\ fbPc' = "mutated"
    /\ UNCHANGED << fbFields, fbN, connState, keyVars, lockVars, wbVars >>

----
\* internal/badger/dir_unix.go: AcquireDirectoryLock and Release, run by
\* several processes on one directory. flock(2) is the kernel's: an exclusive
\* lock excludes every other lock and a shared lock excludes exclusive ones;
\* with LOCK_NB a conflicting request fails at once; closing the file
\* releases the lock.

\* Number of processes.
NumProcs == 3
Procs == 1..NumProcs

\* Every acquisition takes a shared lock.
LockOpts_AlwaysShared(ro) == "sh"

\* opts := LOCK_EX | LOCK_NB; if readOnly { opts = LOCK_SH | LOCK_NB }
LockOpts(ro) == IF ro THEN "sh" ELSE "ex"

\* unix.Flock(fd, opts) succeeds for process p.
FlockGranted(p, opts) ==
    IF opts = "ex"
        THEN \A q \in Procs \ {p} : flock[q] = "none"
        ELSE \A q \in Procs \ {p} : flock[q] # "ex"

\* The pid file written whether or not the lock was granted.
WritesPid_BeforeFlock(ro, granted) == ~ro

\* The pid file is written when the lock was granted and the guard is not
\* read-only.
WritesPid(ro, granted) == granted /\ ~ro

LockIdle ==
    /\ lockPc = [p \in Procs |-> "idle"]
    /\ readOnly = [p \in Procs |-> FALSE]
    /\ flock = [p \in Procs |-> "none"]
    /\ pidFile = 0
    /\ releaseErr = [p \in Procs |-> FALSE]

\* AcquireDirectoryLock up to the flock: os.Open, unix.Flock; on an error the
\* file is closed and the error returned. A read-only guard is returned here.
AcquireFlock(p) ==
    /\ lockPc[p] \in {"idle", "released", "failed"}
    /\ \E ro \in BOOLEAN, openOk \in BOOLEAN :
         LET granted == openOk /\ FlockGranted(p, LockOpts(ro))
         IN  /\ readOnly' = [readOnly EXCEPT ![p] = ro]
             /\ flock' = [flock EXCEPT ![p] = IF granted THEN LockOpts(ro) ELSE "none"]
             /\ lockPc' = [lockPc EXCEPT ![p] =
                    IF ~granted THEN "failed"
                    ELSE IF WritesPid(ro, granted) THEN "flocked" ELSE "held"]
             /\ pidFile' = IF ~granted /\ WritesPid(ro, granted) THEN p ELSE pidFile
    /\ releaseErr' = [releaseErr EXCEPT ![p] = FALSE]
    /\ UNCHANGED << connState, keyVars, fbVars, wbVars >>

\* ioutil.WriteFile of the pid file: it succeeds, fails before the file is
\* created, or fails after the file was created or truncated. On an error
\* the directory is closed (which drops the lock) and the error returned.
WriteFileOutcomes == {"ok", "errNoFile", "errFile"}

AcquireWritePid(p) ==
    /\ lockPc[p] = "flocked"
    /\ \E w \in WriteFileOutcomes :
         /\ pidFile' = IF w = "errNoFile" THEN pidFile ELSE p
         /\ lockPc' = [lockPc EXCEPT ![p] = IF w = "ok" THEN "held" ELSE "failed"]
         /\ flock' = [flock EXCEPT ![p] = IF w = "ok" THEN @ ELSE "none"]
    /\ UNCHANGED << readOnly, releaseErr, connState, keyVars, fbVars, wbVars >>

\* Release of a read-write guard, first half: os.Remove(guard.path). Removing
\* an absent file is an error; removing a present one may fail too.
ReleaseRemove(p) ==
    /\ lockPc[p] = "held"
    /\ ~readOnly[p]
    /\ \E removed \in (IF pidFile = 0 THEN {FALSE} ELSE BOOLEAN) :
         /\ pidFile' = IF removed THEN 0 ELSE pidFile
         /\ releaseErr' = [releaseErr EXCEPT ![p] = ~removed]
    /\ lockPc' = [lockPc EXCEPT ![p] = "removed"]
    /\ UNCHANGED << readOnly, flock, connState, keyVars, fbVars, wbVars >>

\* Release, second half (the whole of it for a read-only guard):
\* guard.f.Close(), whose error is returned when os.Remove gave none.
ReleaseClose(p) ==
    /\ \/ lockPc[p] = "removed"
       \/ lockPc[p] = "held" /\ readOnly[p]
    /\ flock' = [flock EXCEPT ![p] = "none"]
    /\ \E closeOk \in BOOLEAN :
         releaseErr' = [releaseErr EXCEPT ![p] = @ \/ ~closeOk]
    /\ lockPc' = [lockPc EXCEPT ![p] = "released"]
    /\ UNCHANGED << readOnly, pidFile, connState, keyVars, fbVars, wbVars >>

----
\* The batched writer on its own: wb := newBatchedWriter(db, 15ms), the
\* wb.Set calls of a worker and the deferred wb.Close. One flusher owns the
\* current transaction; a transaction is committed when it reaches the
\* threshold (BatchLimit), when the flush timer fires, or on Close.

\* Number of writes given to Set in a run.
MaxSets == 5

\* Set: the first write of a new transaction arms the flush timer. Never armed:
ArmsTimer_Never(txn) == FALSE

ArmsTimer(txn) == txn = << >>

\* The callbacks of a committed batch, fired last write first.
RECURSIVE CallbackOrder_Reversed(_)
CallbackOrder_Reversed(txn) ==
    IF txn = << >> THEN << >>
    ELSE Append(CallbackOrder_Reversed(Tail(txn)), Head(txn))

\* The callbacks of a committed batch fire in submission order.
CallbackOrder(txn) == txn

\* The transaction after a commit, a failed one kept for another attempt.
TxnAfterCommit_KeptOnFailure(txn, ok) == IF ok THEN << >> ELSE txn

\* After a commit, failed or not, the transaction is discarded and a fresh
\* one begins.
TxnAfterCommit(txn, ok) == << >>

\* The callback invocations of one commit of the current transaction.
Callbacks(ok, by) ==
    [i \in 1..Len(wbTxn) |->
        [id |-> CallbackOrder(wbTxn)[i], ok |-> ok,
         commit |-> wbCommits + 1, by |-> by]]

\* The flusher commits the current transaction: the store takes the writes
\* or fails, every callback of the batch is invoked with the result, and the
\* timer is disarmed.
WbCommit(ok, by) ==
    /\ wbStore' = IF ok THEN wbStore \cup Range(wbTxn) ELSE wbStore
    /\ wbFired' = wbFired \o Callbacks(ok, by)
    /\ wbTxn' = TxnAfterCommit(wbTxn, ok)
    /\ wbTimer' = FALSE
    /\ wbCommits' = wbCommits + 1

WbIdle ==
    /\ wbPc = "idle"
    /\ wbNext = 1
    /\ wbAccepted = << >>
    /\ wbRejected = {}
    /\ wbTxn = << >>
    /\ wbTimer = FALSE
    /\ wbFired = << >>
    /\ wbStore = {}
    /\ wbCommits = 0

\* wb.Set(key, msg.Data, callback): refused with ErrClosed after Close and
\* with ErrOversized for a write over the capacity; else the write joins the
\* current transaction.
WbSet ==
    /\ wbPc \in {"open", "closed"}
    /\ wbNext <= MaxSets
    /\ Len(wbTxn) < BatchLimit
    /\ wbNext' = wbNext + 1
    /\ \E res \in (IF wbPc = "closed" THEN {"closed"} ELSE SetResults) :
         IF res = "ok"
             THEN /\ wbAccepted' = Append(wbAccepted, wbNext)
                  /\ wbTxn' = Append(wbTxn, wbNext)
                  /\ wbTimer' = (wbTimer \/ ArmsTimer(wbTxn))
                  /\ UNCHANGED wbRejected
             ELSE /\ wbRejected' = wbRejected \cup {wbNext}
                  /\ UNCHANGED << wbAccepted, wbTxn, wbTimer >>
    /\ UNCHANGED << wbPc, wbFired, wbStore, wbCommits >>
    /\ UNCHANGED << connState, keyVars, fbVars, lockVars >>

\* The transaction has reached the threshold.
WbThresholdCommit ==
    /\ wbPc = "open"
    /\ Len(wbTxn) >= BatchLimit
    /\ \E ok \in BOOLEAN : WbCommit(ok, "threshold")
    /\ UNCHANGED << wbPc, wbNext, wbAccepted, wbRejected >>
    /\ UNCHANGED << connState, keyVars, fbVars, lockVars >>

\* The flush timer fires: the transaction is committed below the threshold.
WbTimerFire ==
    /\ wbPc = "open"
    /\ wbTimer
    /\ \E ok \in BOOLEAN : WbCommit(ok, "timer")
    /\ UNCHANGED << wbPc, wbNext, wbAccepted, wbRejected >>
    /\ UNCHANGED << connState, keyVars, fbVars, lockVars >>

\* defer wb.Close(): no more writes; the current transaction is flushed and
\* its callbacks fire before Close returns.
WbClose ==
    /\ wbPc = "open"
    /\ wbPc' = "closed"
    /\ IF wbTxn = << >>
         THEN UNCHANGED << wbStore, wbFired, wbTxn, wbTimer, wbCommits >>
         ELSE \E ok \in BOOLEAN : WbCommit(ok, "close")
    /\ UNCHANGED << wbNext, wbAccepted, wbRejected >>
    /\ UNCHANGED << connState, keyVars, fbVars, lockVars >>

----
\* NewConn; the packages exercised on their own are idle.
Init ==
    /\ ConnInit
    /\ KeyIdle
    /\ FbIdle
    /\ LockIdle
    /\ WbIdle

Next ==
    \/ InitBadger
    \/ InitNATSConnect
    \/ InitNATSCloser
    \/ InitNATSSubscribe
    \/ InitNATSFlush
    \/ InitNatsConsumers
    \/ InstallWatchers
    \/ ConnectReturnErr
    \/ \E c \in CloseCallers : CloseCall(c)
    \/ CloseStopConsumers
    \/ CloseStopBadger
    \/ CloseFinish
    \/ \E c \in CloseCallers : CloseReturn(c)
    \/ NatsCloserDrain
    \/ NatsCloserClose
    \/ BadgerCloserRun
    \/ NatsTerminalClose
    \/ Deliver
    \/ \E r \in Workers : WorkerStart(r)
    \/ \E r \in Workers : WorkerRecv(r)
    \/ \E r \in Workers : TimerCommit(r)
    \/ \E r \in Workers : ThresholdCommit(r)
    \/ \E r \in Workers : WorkerStop(r)

Spec == Init /\ [][Next]_vars

----
\* internal/queue/key.go on its own: build a message key, then parse it.

KeyInit ==
    /\ ConnInit /\ hookSet
    /\ keyPc = "input"
    /\ queue \in Queues
    /\ ident \in Idents
    /\ qkBytes = << >>
    /\ parsed = ParseQueueKey(<< >>)
    /\ seek = << >>
    /\ until = << >>
    /\ prefix = << >>
    /\ FbIdle
    /\ LockIdle
    /\ WbIdle

KeyNext ==
    \/ KeyBuild
    \/ KeyParse
    \/ KeyPrefixOf

KeySpec == KeyInit /\ [][KeyNext]_vars

----
\* The envelope codec on its own: build an envelope, view it, mutate retries.

FbInit ==
    /\ ConnInit /\ hookSet
    /\ KeyIdle
    /\ fbPc = "input"
    /\ fbFields \in FieldInputs
    /\ fbN \in RetriesInputs
    /\ msgBytes = EmptyBuffer
    /\ fbSeen = View(EmptyBuffer)
    /\ mutOk = FALSE
    /\ LockIdle
    /\ WbIdle

FbNext ==
    \/ FbBuild
    \/ FbMutate

FbSpec == FbInit /\ [][FbNext]_vars

----
\* dir_unix.go on its own: processes acquire and release the directory lock.

LockInit ==
    /\ ConnInit /\ hookSet
    /\ KeyIdle
    /\ FbIdle
    /\ LockIdle
    /\ WbIdle

LockNext ==
    \/ \E p \in Procs : AcquireFlock(p)
    \/ \E p \in Procs : AcquireWritePid(p)
    \/ \E p \in Procs : ReleaseRemove(p)
    \/ \E p \in Procs : ReleaseClose(p)

LockSpec == LockInit /\ [][LockNext]_vars

----
\* The batched writer on its own. The flusher and the timer are goroutines of
\* the writer and keep running; the caller may stop calling Set and Close.

WbInit ==
    /\ ConnInit /\ hookSet
    /\ KeyIdle
    /\ FbIdle
    /\ LockIdle
    /\ wbPc = "open"
    /\ wbNext = 1
    /\ wbAccepted = << >>
    /\ wbRejected = {}
    /\ wbTxn = << >>
    /\ wbTimer = FALSE
    /\ wbFired = << >>
    /\ wbStore = {}
    /\ wbCommits = 0

WbNext ==
    \/ WbSet
    \/ WbThresholdCommit
    \/ WbTimerFire
    \/ WbClose

WbSpec == WbInit /\ [][WbNext]_vars

WbLiveSpec == WbSpec /\ WF_vars(WbThresholdCommit) /\ WF_vars(WbTimerFire)




\* Scheduling: every goroutine of the program that can take a step
\* eventually takes one. The steps of one goroutine exclude each other, so
\* one condition per goroutine says it; for the callers blocked in Close and
\* for the workers, each step retires one of finitely many, so fairness of
\* "some caller returns" and "some worker starts / stops" reaches them all.
\* Signals, context cancellation, the embedder's Close, message arrival,
\* flush timers and bus failures are not forced.
ConnectStep ==
    \/ InitBadger
    \/ InitNATSConnect
    \/ InitNATSCloser
    \/ InitNATSSubscribe
    \/ InitNATSFlush
    \/ InitNatsConsumers
    \/ InstallWatchers
    \/ CloseCall("connect")
    \/ ConnectReturnErr

CloseBodyStep == CloseStopConsumers \/ CloseStopBadger \/ CloseFinish

NatsCloserStep == NatsCloserDrain \/ NatsCloserClose

Fairness ==
    /\ WF_vars(ConnectStep)
    /\ WF_vars(CloseCall("handler"))
    /\ WF_vars(CloseBodyStep)
    /\ WF_vars(\E c \in CloseCallers : CloseReturn(c))
    /\ WF_vars(NatsCloserStep)
    /\ WF_vars(BadgerCloserRun)
    /\ WF_vars(\E r \in Workers : WorkerStart(r))
    /\ WF_vars(\E r \in Workers : WorkerStop(r))

\* The write-error hook takes no part in startup or shutdown; the liveness
\* specification runs with it configured.
LiveInit == Init /\ hookSet

\* Number of messages the bus delivers in a run checked for liveness: fewer
\* than the threshold of a transaction, so that the transactions of these
\* runs are committed by the timer or by the close of the writer.
MaxLiveMsgs == 1

LiveDeliver == nextMsg <= MaxLiveMsgs /\ Deliver

LiveNext ==
    \/ InitBadger
    \/ InitNATSConnect
    \/ InitNATSCloser
    \/ InitNATSSubscribe
    \/ InitNATSFlush
    \/ InitNatsConsumers
    \/ InstallWatchers
    \/ ConnectReturnErr
    \/ \E c \in CloseCallers : CloseCall(c)
    \/ CloseStopConsumers
    \/ CloseStopBadger
    \/ CloseFinish
    \/ \E c \in CloseCallers : CloseReturn(c)
    \/ NatsCloserDrain
    \/ NatsCloserClose
    \/ BadgerCloserRun
    \/ NatsTerminalClose
    \/ LiveDeliver
    \/ \E r \in Workers : WorkerStart(r)
    \/ \E r \in Workers : WorkerRecv(r)
    \/ \E r \in Workers : TimerCommit(r)
    \/ \E r \in Workers : WorkerStop(r)

LiveSpec == LiveInit /\ [][LiveNext]_vars /\ Fairness

----
\* The supervisor together with the bus event handlers.

EventNext ==
    \/ InitBadger
    \/ InitNATSConnect
    \/ InitNATSCloser
    \/ InitNATSSubscribe
    \/ InitNATSFlush
    \/ InitNatsConsumers
    \/ InstallWatchers
    \/ ConnectReturnErr
    \/ \E c \in CloseCallers : CloseCall(c)
    \/ CloseStopConsumers
    \/ CloseStopBadger
    \/ CloseFinish
    \/ \E c \in CloseCallers : CloseReturn(c)
    \/ NatsCloserDrain
    \/ NatsCloserClose
    \/ BadgerCloserRun
    \/ NatsTerminalClose
    \/ LiveDeliver
    \/ \E r \in Workers : WorkerStart(r)
    \/ \E r \in Workers : WorkerRecv(r)
    \/ \E r \in Workers : TimerCommit(r)
    \/ \E r \in Workers : WorkerStop(r)
    \/ NATSDisconnectErrHandler
    \/ NATSReconnectHandler
    \/ \E e \in AsyncErrors : NATSErrorHandler(e)

EventSpec == LiveInit /\ [][EventNext]_vars

----
\* Properties

\* The storage open of initBadger has failed.
OpenFailed == connectPc # "initBadger" /\ badgerDB = "nil"

\* Every worker goroutine has returned.
WorkersReturned == \A r \in Workers : r.pc = "done"

\* C1: an acknowledgement is sent for a message only if the transaction
\* holding its write has committed; a message whose commit callback fired
\* with an error is never acknowledged.
C1_AckOnlyAfterCommit ==
    \A m \in Msgs : ack[m] = "sent" => (cbResult[m] = "nil" /\ m \in stored)

\* C2: the worker pool is signalled to stop (and so a worker can observe the
\* stop signal or have returned on it) only when the bus phase has finished:
\* the closer goroutine of initNATS has run Drain and Close and called Done,
\* or no connection was ever made.
C2_PoolStoppedAfterBus ==
    (HasBeenClosed("natsConsumers") \/ \E r \in Workers : r.pc = "done")
        => /\ HasBeenClosed("nats")
           /\ natsCloserPc \in {"none", "done"}
           /\ nc \in {"nil", "closed"}

\* C3: the storage handle is closed only when every worker has closed its
\* batched writer and returned; no worker runs on a closed store.
C3_StorageClosedAfterWorkers ==
    badgerDB = "closed" => WorkersReturned

\* C4: after a Connect that succeeded, once Close has returned no
\* subscription callback is left blocked on the dispatch channel: every
\* message handed to the callback was received by a worker. Stated for a
\* Close that a signal, the context or the embedder started (the
\* closed-handler has not run), so the pool was running when it began.
C4_NoCallbackBlockedAfterUserClose ==
    (connectPc = "ok" /\ closeOnce = "done" /\ callerPc["handler"] = "idle")
        => inflight = 0

\* C7: when the storage open fails, Connect takes its error path: no bus
\* connection or subscription is made, no worker is started and Connect does
\* not return a connection.
C7_OpenFailureIsFatal ==
    OpenFailed => /\ nc = "nil"
                  /\ ~sub
                  /\ pool = EmptyBag
                  /\ connectPc # "ok"

\* C8: when Connect returns an error, everything initialized so far has been
\* rolled back: the store is not open and its closer goroutine has finished,
\* a connection that was made is drained and closed by its closer goroutine,
\* and there is no worker and no signal or context watcher.
C8_StartupFailureRollsBack ==
    connectPc = "err"
        => /\ badgerDB # "open"
           /\ badgerCloserPc = "done"
           /\ nc \in {"nil", "closed"}
           /\ natsCloserPc \in {"none", "done"}
           /\ pool = EmptyBag
           /\ ~watchers
           /\ ConnHasBeenClosed

\* C9: with a write-error hook configured, the hook is invoked once for each
\* message of a batch whose commit failed.
C9_HookPerFailedCommit ==
    \A m \in Msgs : (hookSet /\ cbResult[m] = "err") => hookCalls[m] = 1

\* The three phases have completed and the completion channel is closed.
ShutdownComplete ==
    /\ ConnHasBeenClosed
    /\ closePc = "done"
    /\ nc = "closed"
    /\ natsCloserPc = "done"
    /\ WorkersReturned
    /\ badgerDB # "open"
    /\ badgerCloserPc = "done"

\* C5: whatever goroutines call Close, each closer is signalled at most once
\* and the completion channel is closed at most once; when the Once body has
\* completed each of them has happened exactly once; and every call of Close
\* returns: again and again no call is pending (a caller goes from idle to
\* calling to returned, so a call that never returned would stay pending).
C5_CloseIdempotent ==
    /\ [](\A n \in CloserNames : closers[n].signals <= 1)
    /\ [](closedCount <= 1)
    /\ [](closeOnce = "done"
            => closedCount = 1 /\ \A n \in CloserNames : closers[n].signals = 1)
    /\ []<>(\A c \in CloseCallers : callerPc[c] # "calling")

\* C5 witness: the embedder, both watchers and the closed-handler have all
\* called Close and returned, and the completion channel was closed once.
C5_Witness ==
    /\ \A c \in {"embedder", "signal", "context", "handler"} :
         callerPc[c] = "returned"
    /\ closedCount = 1

\* C6: after Connect has succeeded, a signal, a context cancellation or a
\* terminal close of the bus connection leads to the completed shutdown with
\* the completion channel closed.
C6_TriggersLeadToShutdown ==
    (/\ connectPc = "ok"
     /\ \/ \E c \in {"signal", "context", "handler"} : callerPc[c] # "idle"
        \/ nc = "closed")
        ~> ShutdownComplete

\* C6 witness: after a successful Connect with a committed message, the
\* signal watcher has called Close and the shutdown is complete.
C6_Witness ==
    /\ connectPc = "ok"
    /\ callerPc["signal"] = "returned"
    /\ ShutdownComplete
    /\ stored # {}

\* C10: a message whose Set returned an error is dropped: the write-error
\* hook has been invoked once for it if it is configured (never otherwise),
\* it is in no transaction, nothing is stored for it, its callback never
\* fires and no acknowledgement is sent; and the step in which Set fails
\* leaves the worker in its receive loop with its transaction untouched.
C10_SetErrorDropsMessage ==
    /\ [](\A m \in Msgs :
            setResult[m] = "oversized"
              => /\ hookCalls[m] = IF hookSet THEN 1 ELSE 0
                 /\ m \notin stored
                 /\ cbResult[m] = "none"
                 /\ ack[m] = "none"
                 /\ \A r \in Workers : m \notin Range(r.txn))
    /\ [][\A m \in Msgs :
            (setResult[m] = "none" /\ setResult'[m] = "oversized")
              => pool' = pool]_vars

\* C10 witness: the first message was rejected by Set and reported to the
\* hook; the second one was then received, committed and acknowledged.
C10_Witness ==
    /\ setResult[1] = "oversized"
    /\ hookCalls[1] = 1
    /\ 2 \in stored
    /\ ack[2] = "sent"

\* k is a message key of queue q: four segments _q, _m, q and an identifier
\* of the fixed width.
IsMessageKeyOf(k, q) ==
    LET spl == Split(k, sep)
    IN  /\ Len(spl) = 4
        /\ spl[1] = QueuesNamespace
        /\ spl[2] = MessagesBucket
        /\ spl[3] = q
        /\ Len(spl[4]) = KeySize

\* C11: every key the ingress path has written to the store is a well-formed
\* message key of the queue "default": the four segments _q, _m, default and
\* a fixed-width identifier, also for an envelope whose original_subject
\* contains dots.
C11_IngressKeysWellFormed ==
    \A k \in StoredKeys : IsMessageKeyOf(k, DefaultQueue)

\* C12: for every queue name and every fixed-width identifier, parsing the
\* bytes of the message key succeeds and gives back the key that was built.
C12_MessageKeyRoundTrip ==
    keyPc = "parsed"
        => /\ parsed.ok
           /\ parsed.key = NewQueueKeyForMessage(queue, KeyOf(ident))

\* C13 as stated: every message key sorts strictly between FirstMessage and
\* LastMessage of its queue.
C13_StrictRangeBounds ==
    keyPc # "input"
        => /\ LexLess(Bytes(FirstMessage(queue)), qkBytes)
           /\ LexLess(qkBytes, Bytes(LastMessage(queue)))

\* C13 amended: every message key sorts between FirstMessage and LastMessage
\* of its queue, bounds included; it equals the lower bound exactly for the
\* identifier Min and the upper bound exactly for the identifier Max.
C13_InclusiveRangeBounds ==
    keyPc # "input"
        => /\ ~LexLess(qkBytes, Bytes(FirstMessage(queue)))
           /\ ~LexLess(Bytes(LastMessage(queue)), qkBytes)
           /\ (qkBytes = Bytes(FirstMessage(queue))) <=> (ident = KeyMin)
           /\ (qkBytes = Bytes(LastMessage(queue))) <=> (ident = KeyMax)

\* C13 witness: keys were built for an identifier strictly inside the range
\* whose first byte is the largest byte value.
C13_Witness ==
    /\ keyPc = "built"
    /\ ident # KeyMax
    /\ ident[1] = 255
    /\ LexLess(Bytes(FirstMessage(queue)), qkBytes)
    /\ LexLess(qkBytes, Bytes(LastMessage(queue)))

\* C14: after MutateRetries(View(b), n) has succeeded, a view of the buffer
\* reads retries = n and every other field reads the value a view read before
\* the mutation.
C14_MutateRetriesInPlace ==
    (fbPc = "mutated" /\ mutOk)
        => View(msgBytes) = [fbSeen EXCEPT !["retries"] = fbN]

\* C14 witness: retries was mutated from 5 to 4 in an envelope that carries
\* a ttl, a delay, a backoff strategy and an original subject.
C14_Witness ==
    /\ fbPc = "mutated" /\ mutOk
    /\ fbSeen["retries"] = 5 /\ fbN = 4
    /\ View(msgBytes)["retries"] = 4
    /\ fbSeen["ttl"] = 10000 /\ fbSeen["delay"] = 20000
    /\ fbSeen["backoff_strategy"] = 1
    /\ fbSeen["original_subject"] # << >>

\* Processes whose read-write acquisition holds the lock (from the flock to
\* the close of Release), and processes holding a read-only guard.
RWHolders == { p \in Procs : lockPc[p] \in {"flocked", "held", "removed"} /\ ~readOnly[p] }
ROHolders == { p \in Procs : lockPc[p] = "held" /\ readOnly[p] }

\* An acquisition by p in mode ro meets a lock it must not share.
Conflicts(p, ro) ==
    IF ro THEN RWHolders \ {p} # {}
    ELSE (RWHolders \cup ROHolders) \ {p} # {}

\* C15: at most one read-write guard is held on the directory and never
\* together with a read-only guard; an acquisition that would break this
\* returns an error at once and holds no lock. (Read-only guards held
\* together are the witness.)
C15_LockMutualExclusion ==
    /\ [](/\ Cardinality(RWHolders) <= 1
          /\ RWHolders # {} => ROHolders = {})
    /\ [][\A p \in Procs :
            (AcquireFlock(p) /\ Conflicts(p, readOnly'[p]))
                => (lockPc'[p] = "failed" /\ flock'[p] = "none")]_vars

\* C15 witness: two read-only guards are held together and a read-write
\* acquisition of the third process has failed.
C15_Witness ==
    \E p, q, r \in Procs :
        /\ p # q /\ {p, q} \subseteq ROHolders
        /\ lockPc[r] = "failed" /\ ~readOnly[r]

\* C16: an acquisition that fails because another process holds the lock
\* changes nothing: the pid file is as before (not created, overwritten or
\* removed), the caller holds no lock and every lock held stays held.
C16_FailedAcquireChangesNothing ==
    [][\A p \in Procs :
          (AcquireFlock(p) /\ Conflicts(p, readOnly'[p]))
              => (pidFile' = pidFile /\ flock' = flock /\ flock[p] = "none")]_vars

\* C16 witness: a read-write acquisition was refused while another process
\* holds the read-write guard and its pid file.
C16_Witness ==
    \E p, q \in Procs :
        /\ p # q
        /\ lockPc[p] = "failed" /\ ~readOnly[p]
        /\ lockPc[q] = "held" /\ ~readOnly[q] /\ flock[q] = "ex" /\ pidFile = q

\* C17: whenever the pid file exists it was written by the process that
\* holds the exclusive lock; and once a read-write guard's Release has
\* returned without an error, that guard's pid file is gone and its lock is
\* released.
C17_PidFileBelongsToHolder ==
    /\ pidFile # 0 => flock[pidFile] = "ex"
    /\ \A p \in Procs :
          (lockPc[p] = "released" /\ ~readOnly[p] /\ ~releaseErr[p])
              => (pidFile # p /\ flock[p] = "none")

\* The writes whose callback was invoked, in invocation order.
FiredIds == [i \in 1..Len(wbFired) |-> wbFired[i].id]

IsPrefix(a, b) == Len(a) <= Len(b) /\ SubSeq(b, 1, Len(a)) = a

\* The callback invocations of commit number c.
FiredBy(c) == { i \in 1..Len(wbFired) : wbFired[i].commit = c }

\* C18: the callbacks invoked are, in order, the writes Set accepted (none
\* twice, none out of order, none for a refused write), and once the writer
\* is closed every accepted write's callback has been invoked.
C18_CallbacksOnceInOrder ==
    /\ IsPrefix(FiredIds, wbAccepted)
    /\ wbPc = "closed" => FiredIds = wbAccepted

\* C18 witness: a closed writer whose writes were committed by the threshold,
\* by the timer and by Close, with a failed and a successful commit.
C18_Witness ==
    /\ wbPc = "closed"
    /\ \A by \in {"threshold", "timer", "close"} :
          \E i \in 1..Len(wbFired) : wbFired[i].by = by
    /\ \E i, j \in 1..Len(wbFired) : wbFired[i].ok /\ ~wbFired[j].ok
    /\ wbRejected # {}

\* C19: while a transaction holds a write the flush timer is armed, and every
\* accepted write's callback is eventually invoked, with no further Set or
\* Close needed.
C19_TimerFlushesAcceptedWrites ==
    /\ []((wbPc = "open" /\ wbTxn # << >>) => wbTimer)
    /\ \A id \in 1..MaxSets :
          (id \in Range(wbAccepted)) ~> (id \in Range(FiredIds))

\* C19 witness: the timer committed a transaction below the threshold while
\* the writer was open.
C19_Witness ==
    /\ wbPc = "open"
    /\ \E i \in 1..Len(wbFired) :
          /\ wbFired[i].by = "timer"
          /\ Cardinality(FiredBy(wbFired[i].commit)) < BatchLimit
          /\ wbFired[i].id \in wbStore

\* C20: a failed commit invokes every callback of its batch with that
\* commit's error and leaves the store as it was; the batch is not committed
\* again (no write's callback fires twice and no failed write ever becomes
\* visible); after any commit the transaction is a fresh, empty one.
C20_FailedCommitDiscardsBatch ==
    /\ [](\A i, j \in 1..Len(wbFired) :
            /\ ~wbFired[i].ok => wbFired[i].id \notin wbStore
            /\ wbFired[i].commit = wbFired[j].commit => wbFired[i].ok = wbFired[j].ok
            /\ wbFired[i].id = wbFired[j].id => i = j)
    /\ [][wbCommits' # wbCommits =>
            /\ wbTxn' = << >>
            /\ { wbFired'[i].id : i \in (Len(wbFired) + 1)..Len(wbFired') } = Range(wbTxn)
            /\ (\E i \in (Len(wbFired) + 1)..Len(wbFired') : ~wbFired'[i].ok)
                  => wbStore' = wbStore]_vars

\* C20 witness: a batch of two writes failed to commit, and a write submitted
\* afterwards was committed and is visible.
C20_Witness ==
    \E i, j, k \in 1..Len(wbFired) :
        /\ i < j /\ j < k
        /\ ~wbFired[i].ok /\ ~wbFired[j].ok
        /\ wbFired[i].commit = wbFired[j].commit
        /\ wbFired[k].ok /\ wbFired[k].id \in wbStore

\* C21: whenever the completion channel (c.closed) is closed, the three
\* phases have completed: the bus connection is closed (or was never made),
\* every worker has returned and the storage handle is not open; and the
\* channel is not closed while no caller has called Close.
C21_ClosedAfterAllPhases ==
    /\ ConnHasBeenClosed
          => /\ nc \in {"nil", "closed"}
             /\ WorkersReturned
             /\ badgerDB # "open"
    /\ (\A c \in CloseCallers : callerPc[c] = "idle") => ~ConnHasBeenClosed

\* C22: PrefixOf(seek, until) is the longest common byte prefix of its
\* arguments: it is a prefix of both, no longer than the shorter one, as long
\* as the shorter one or followed by differing bytes, and the same for the
\* arguments in the other order.
C22_PrefixOfLongestCommonPrefix ==
    keyPc = "prefixed"
        => /\ IsPrefix(prefix, seek)
           /\ IsPrefix(prefix, until)
           /\ Len(prefix) <= Len(seek) /\ Len(prefix) <= Len(until)
           /\ \/ Len(prefix) = Len(seek)
              \/ Len(prefix) = Len(until)
              \/ seek[Len(prefix) + 1] # until[Len(prefix) + 1]
           /\ prefix = PrefixOf(until, seek)

\* C22 witness: PrefixOf was given two arguments of different lengths that
\* agree on a first part and then differ before the shorter one ends.
C22_Witness ==
    /\ keyPc = "prefixed"
    /\ Len(seek) # Len(until)
    /\ Len(prefix) > 0
    /\ Len(prefix) < Len(seek)
    /\ Len(prefix) < Len(until)

\* A range scan from FirstMessage(q) to LastMessage(q), bounds included,
\* returns the key k.
InScanOf(k, q) ==
    /\ ~LexLess(k, Bytes(FirstMessage(q)))
    /\ ~LexLess(Bytes(LastMessage(q)), k)

\* C25: the key of a message of one queue does not lie within the range
\* from FirstMessage to LastMessage of any other queue.
C25_QueuesPartitionKeySpace ==
    keyPc # "input"
        => \A q1 \in Queues \ {queue} : ~InScanOf(qkBytes, q1)

\* The workers whose open transaction holds message m.
HoldersOf(m) == {r \in Workers : m \in Range(r.txn)}

\* C23: each message the callback sent on the dispatch channel and a worker
\* took was received by exactly one worker and given once to wb.Set of that
\* worker's own writer: no message is received twice, and no message is in
\* the open transactions of two workers or twice in one transaction.
C23_OneWorkerOneWriter ==
    \A m \in Msgs :
        /\ received[m] <= 1
        /\ (m < nextMsg /\ inflight # m) => received[m] = 1
        /\ (received[m] = 1) <=> (setResult[m] # "none")
        /\ Cardinality(HoldersOf(m)) <= 1
        /\ \A r \in HoldersOf(m) :
              /\ CopiesIn(r, pool) = 1
              /\ Cardinality({i \in DOMAIN r.txn : r.txn[i] = m}) = 1
              /\ received[m] = 1
              /\ setResult[m] = "ok"

\* C23 witness: two workers of the running pool each received one of two
\* messages and hold it in their own open transaction.
C23_Witness ==
    \E r1 \in Workers, r2 \in Workers :
        /\ r1.pc = "select" /\ r2.pc = "select"
        /\ r1.txn = << 1 >>
        /\ r2.txn = << 2 >>
        /\ received[1] = 1
        /\ received[2] = 1

\* A bus event handler runs.
BusEventStep ==
    \/ NATSDisconnectErrHandler
    \/ NATSReconnectHandler
    \/ \E e \in AsyncErrors : NATSErrorHandler(e)

\* C24: a disconnect, reconnect or asynchronous error handler signals no
\* closer, does not start Close, and leaves the subscription, the workers
\* and the storage handle as they were.
C24_BusEventsNotFatal ==
    [][BusEventStep => UNCHANGED << closers, closeOnce, closePc, callerPc,
                                    sub, pool, badgerDB >>]_vars

====
